---- MODULE Spec2Model ----
(***************************************************************************)
(* Model of pypaperutils: measure.distance_to_line,                        *)
(* measure.draw_distance_to_line, design.TUDcolors.get and                 *)
(* io.export_to_pgf.                                                       *)
(*                                                                         *)
(* Numbers.  Coordinates are integers.  A quotient n/m the code computes   *)
(* is kept as the record [num |-> n, den |-> m]; the distance              *)
(* |n| / sqrt(m) is kept as [num |-> |n|, rad |-> m].  A point is a pair   *)
(* <<x, y>>, so Python's p[0], p[1] are p[1], p[2] here.                   *)
(***************************************************************************)
EXTENDS Integers, Sequences, FiniteSets, TLC

VARIABLES
    p0, p1, p2,     \* the points of the current measurement
    retDist,        \* <<>> or <<the value distance_to_line returned>>
    retSwap,        \* <<>> or <<the value distance_to_line(p0, p2, p1) returned>>
    retDraw,        \* <<>> or <<the value draw_distance_to_line returned>>
    drawArgs,       \* <<>> or <<[offset, width, drawPoints] of the last draw call>>
    ax,             \* the drawing surface: the primitives added, in call order
    ncalls,         \* number of draw_distance_to_line calls on ax
    getCall,        \* <<>> or <<[colors, dtype] of the last TUDcolors.get call>>
    getRet,         \* <<>> or <<its outcome>>
    backend,        \* matplotlib.get_backend()
    dirs,           \* the directories that exist
    files,          \* the files that exist
    exportCall,     \* <<>> or <<the arguments and pre-state of the last export_to_pgf>>
    exportRet       \* <<>> or <<its outcome>>

geomVars == <<p0, p1, p2, retDist, retSwap, retDraw, drawArgs, ax, ncalls>>
paletteVars == <<getCall, getRet>>
ioVars == <<backend, dirs, files, exportCall, exportRet>>
vars == <<geomVars, paletteVars, ioVars>>

(***************************************************************************)
(* Bounds                                                                  *)
(***************************************************************************)
MaxCoord == 2

Coords == 0..MaxCoord
Points == Coords \X Coords
MaxCalls == 2
Offsets == {0 - 2, 0, 1}
Widths == {0, 1}
LineWidths == {1, 2}
Colors == {"black", "red"}
\* the three worked cases of the measurement: general, horizontal, vertical
Triples == { << <<0, 2>>, <<0, 0>>, <<1, 1>> >>,
             << <<1, 2>>, <<0, 0>>, <<2, 0>> >>,
             << <<2, 1>>, <<0, 0>>, <<0, 2>> >> }
MaxLen == 2

(***************************************************************************)
(* Arithmetic                                                              *)
(***************************************************************************)
Abs(x) == IF x < 0 THEN 0 - x ELSE x

Rat(n, m) == [num |-> n, den |-> m]

IntRat(n) == Rat(n, 1)

RatEq(q, r) == q.num * r.den = r.num * q.den

\* q - r
RatSub(q, r) == Rat(q.num * r.den - r.num * q.den, q.den * r.den)

\* slip: the absolute value is dropped
RootNoAbs(n, m) == [num |-> n, rad |-> m]

\* np.abs(n) / np.sqrt(m)
Root(n, m) == [num |-> Abs(n), rad |-> m]

\* np.abs(n) of an integer n, as a distance
AbsDist(n) == [num |-> Abs(n), rad |-> 1]

RatAdd(q, r) == Rat(q.num * r.den + r.num * q.den, q.den * r.den)

RatMul(q, r) == Rat(q.num * r.num, q.den * r.den)

\* the square of a distance, a quotient
DistSq(d) == Rat(d.num * d.num, d.rad)

(***************************************************************************)
(* measure.distance_to_line                                                *)
(***************************************************************************)
LineA(q1, q2) == q1[2] - q2[2]

LineB(q1, q2) == q2[1] - q1[1]

\* slip: p1[0] where p2[0] is meant
LineCTypo(q1, q2) == q1[1] * q2[2] - q1[2] * q1[1]

LineC(q1, q2) == q1[1] * q2[2] - q1[2] * q2[1]

GeneralDistance(q0, a, b, c) == Root(a * q0[1] + b * q0[2] + c, a * a + b * b)

\* slip: the sign of a*c
GeneralFootSignSlip(q0, a, b, c) ==
    << Rat(b * (b * q0[1] - a * q0[2]) + a * c, a * a + b * b),
       Rat(a * ((0 - b) * q0[1] + a * q0[2]) - b * c, a * a + b * b) >>

GeneralFoot(q0, a, b, c) ==
    << Rat(b * (b * q0[1] - a * q0[2]) - a * c, a * a + b * b),
       Rat(a * ((0 - b) * q0[1] + a * q0[2]) - b * c, a * a + b * b) >>

\* slip: the foot of the vertical case
HorizontalCaseSlip(q0, q1) ==
    [d |-> AbsDist(q1[2] - q0[2]), pc |-> <<IntRat(q1[1]), IntRat(q0[2])>>]

HorizontalCase(q0, q1) ==
    [d |-> AbsDist(q1[2] - q0[2]), pc |-> <<IntRat(q0[1]), IntRat(q1[2])>>]

VerticalCase(q0, q1) ==
    [d |-> AbsDist(q1[1] - q0[1]), pc |-> <<IntRat(q1[1]), IntRat(q0[2])>>]

distance_to_line(q0, q1, q2) ==
    LET a == LineA(q1, q2)
        b == LineB(q1, q2)
        c == LineC(q1, q2)
        r0 == [d |-> GeneralDistance(q0, a, b, c), pc |-> GeneralFoot(q0, a, b, c)]
        r1 == IF a = 0 THEN HorizontalCase(q0, q1) ELSE r0
        r2 == IF b = 0 THEN VerticalCase(q0, q1) ELSE r1
    IN  r2

(***************************************************************************)
(* measure.draw_distance_to_line                                           *)
(*                                                                         *)
(* phi = arctan2(dy, dx) is kept as the direction <<dx, dy>>; a plotted    *)
(* coordinate base + k*cos(phi) or base + k*sin(phi) is kept as the record *)
(* [base, k, trig, phi].                                                   *)
(***************************************************************************)
Arctan2(dy, dx) == <<dx, dy>>

Sign(x) == IF x > 0 THEN 1 ELSE IF x < 0 THEN 0 - 1 ELSE 0

\* slip: no default for offset == 0
TickSignNoDefault(offset) == Sign(offset)

TickSign(offset) == LET a == Sign(offset) IN IF a = 0 THEN 1 ELSE a

AlongCos(base, k, phi) == [base |-> base, k |-> k, trig |-> "cos", phi |-> phi]

AlongSin(base, k, phi) == [base |-> base, k |-> k, trig |-> "sin", phi |-> phi]

Plot(xs, ys, color, linewidth, linestyle) ==
    [kind |-> "line", xs |-> xs, ys |-> ys, color |-> color,
     linewidth |-> linewidth, linestyle |-> linestyle]

Scatter(xs, ys) ==
    [kind |-> "scatter", xs |-> xs, ys |-> ys, color |-> "default",
     linewidth |-> Rat(0, 1), linestyle |-> "none"]

MainBar(q0, pc, offset, phi, color) ==
    Plot(<<AlongCos(pc[1], offset, phi), AlongCos(IntRat(q0[1]), offset, phi)>>,
         <<AlongSin(pc[2], offset, phi), AlongSin(IntRat(q0[2]), offset, phi)>>,
         color, Rat(1, 1), "-")

Tick(base, a, width, offset, phi, color) ==
    Plot(<<AlongCos(base[1], (0 - a) * width + offset, phi),
           AlongCos(base[1], a * width + offset, phi)>>,
         <<AlongSin(base[2], (0 - a) * width + offset, phi),
           AlongSin(base[2], a * width + offset, phi)>>,
         color, Rat(1, 1), "-")

Leader(q0, offset, phi, color) ==
    Plot(<<AlongCos(IntRat(q0[1]), 0, phi), AlongCos(IntRat(q0[1]), offset, phi)>>,
         <<AlongSin(IntRat(q0[2]), 0, phi), AlongSin(IntRat(q0[2]), offset, phi)>>,
         color, Rat(1, 2), "--")

PointMarks(q0, q1, q2, pc) ==
    Scatter(<<IntRat(q0[1]), IntRat(q1[1]), IntRat(q2[1]), pc[1]>>,
            <<IntRat(q0[2]), IntRat(q1[2]), IntRat(q2[2]), pc[2]>>)

\* the primitives one call adds to the surface, in the order it adds them
DrawnPrimitives(q0, q1, q2, offset, width, drawPoints, color) ==
    LET phi == Arctan2(q2[2] - q1[2], q2[1] - q1[1])
        pc == distance_to_line(q0, q1, q2).pc
        a == TickSign(offset)
    IN  << MainBar(q0, pc, offset, phi, color),
           Tick(pc, a, width, offset, phi, color),
           Tick(<<IntRat(q0[1]), IntRat(q0[2])>>, a, width, offset, phi, color),
           Leader(q0, offset, phi, color) >>
        \o (IF drawPoints THEN <<PointMarks(q0, q1, q2, pc)>> ELSE <<>>)

\* slip: the foot moved along with the bar
DrawReturnSlip(q0, q1, q2, offset, width, drawPoints) ==
    LET r == distance_to_line(q0, q1, q2)
    IN  [d |-> r.d, pc |-> <<RatAdd(r.pc[1], IntRat(offset)), r.pc[2]>>]

\* the value one call returns
DrawReturn(q0, q1, q2, offset, width, drawPoints) == distance_to_line(q0, q1, q2)

(***************************************************************************)
(* The measurement as a state machine                                      *)
(***************************************************************************)
PaletteIdle == getCall = <<>> /\ getRet = <<>>

IOIdle ==
    /\ backend = "agg"
    /\ dirs = {}
    /\ files = {}
    /\ exportCall = <<>>
    /\ exportRet = <<>>

GeomFresh ==
    /\ retDist = <<>>
    /\ retSwap = <<>>
    /\ retDraw = <<>>
    /\ drawArgs = <<>>
    /\ ax = <<>>
    /\ ncalls = 0

\* callers must not pass coincident p1, p2
InitGeom ==
    /\ p0 \in Points
    /\ p1 \in Points
    /\ p2 \in Points
    /\ p1 # p2
    /\ GeomFresh
    /\ PaletteIdle
    /\ IOIdle

CallDistance ==
    /\ retDist = <<>>
    /\ retDist' = <<distance_to_line(p0, p1, p2)>>
    /\ UNCHANGED <<p0, p1, p2, retSwap, retDraw, drawArgs, ax, ncalls>>
    /\ UNCHANGED <<paletteVars, ioVars>>

CallDistanceSwapped ==
    /\ retSwap = <<>>
    /\ retSwap' = <<distance_to_line(p0, p2, p1)>>
    /\ UNCHANGED <<p0, p1, p2, retDist, retDraw, drawArgs, ax, ncalls>>
    /\ UNCHANGED <<paletteVars, ioVars>>

CallDraw(limit, q0, q1, q2, offset, width, drawPoints, linewidth, color) ==
    /\ ncalls < limit
    /\ p0' = q0
    /\ p1' = q1
    /\ p2' = q2
    /\ ax' = ax \o DrawnPrimitives(q0, q1, q2, offset, width, drawPoints, color)
    /\ ncalls' = ncalls + 1
    /\ drawArgs' = <<[offset |-> offset, width |-> width, drawPoints |-> drawPoints,
                       linewidth |-> linewidth, color |-> color]>>
    /\ retDraw' = <<DrawReturn(q0, q1, q2, offset, width, drawPoints)>>
    /\ UNCHANGED <<retDist, retSwap>>
    /\ UNCHANGED <<paletteVars, ioVars>>

DrawOnce ==
    \E offset \in Offsets, width \in Widths, drawPoints \in BOOLEAN,
       linewidth \in LineWidths, color \in Colors :
        CallDraw(1, p0, p1, p2, offset, width, drawPoints, linewidth, color)

NextGeom == CallDistance \/ CallDistanceSwapped \/ DrawOnce

SpecGeom == InitGeom /\ [][NextGeom]_vars

\* repeated annotation of one surface
InitDraw ==
    /\ \E t \in Triples : p0 = t[1] /\ p1 = t[2] /\ p2 = t[3]
    /\ GeomFresh
    /\ PaletteIdle
    /\ IOIdle

DrawAgain ==
    \E t \in Triples, offset \in Offsets, width \in Widths, drawPoints \in BOOLEAN :
        CallDraw(MaxCalls, t[1], t[2], t[3], offset, width, drawPoints, 1, "black")

NextDraw == DrawAgain

SpecDraw == InitDraw /\ [][NextDraw]_vars

(***************************************************************************)
(* design.TUDcolors                                                        *)
(*                                                                         *)
(* A colour identifier is [type, name, idx]: a str carries name, an int    *)
(* carries idx, any other type carries neither.  The colors argument is    *)
(* [islist, items]; a bare identifier is [islist |-> FALSE, items |-> <<x>>]*)
(* as the code wraps it.  A channel is a quotient: n/1 for 'int', n/255    *)
(* for 'float'.                                                            *)
(***************************************************************************)
PALETTE ==
    << <<0, 166, 214>>, <<12, 35, 64>>, <<0, 184, 200>>, <<0, 118, 194>>,
       <<111, 29, 119>>, <<239, 96, 163>>, <<165, 0, 52>>, <<224, 60, 49>>,
       <<237, 104, 66>>, <<255, 184, 28>>, <<108, 194, 74>>, <<0, 155, 119>> >>

COLORNAMES ==
    << "cyaan", "donkerblauw", "turkoois", "blauw", "paars", "roze",
       "framboos", "rood", "oranje", "geel", "lichtgroen", "donkergroen" >>

NameSet == {COLORNAMES[i] : i \in 1..Len(COLORNAMES)}

\* dict(zip(COLORNAMES, PALETTE)): a later pair overrides an earlier one
ColorsDict ==
    [n \in NameSet |->
        PALETTE[CHOOSE i \in 1..Len(COLORNAMES) :
                    /\ COLORNAMES[i] = n
                    /\ \A j \in (i + 1)..Len(COLORNAMES) : COLORNAMES[j] # n]]

StrId(n) == [type |-> "str", name |-> n, idx |-> 0]

IntId(i) == [type |-> "int", name |-> "", idx |-> i]

FloatId == [type |-> "float", name |-> "", idx |-> 0]

Raise(exc) == [kind |-> "raise", exc |-> exc, islist |-> FALSE, value |-> <<>>]

Return(islist, value) == [kind |-> "return", exc |-> "", islist |-> islist, value |-> value]

\* slip: "hex" let through
DtypeLegalSlip(dtype) == dtype \in {"float", "int", "hex"}

DtypeLegal(dtype) == dtype \in {"float", "int"}

\* np.array(t), and .astype(float) / 255 for dtype 'float'
Convert(t, dtype) ==
    IF dtype = "float"
    THEN <<Rat(t[1], 255), Rat(t[2], 255), Rat(t[3], 255)>>
    ELSE <<IntRat(t[1]), IntRat(t[2]), IntRat(t[3])>>

\* self.colors[x]
DictLookup(x) ==
    IF x.type = "str" /\ x.name \in DOMAIN ColorsDict
    THEN [exc |-> "", val |-> ColorsDict[x.name]]
    ELSE [exc |-> "KeyError", val |-> <<>>]

\* slip: the 0-based index used as a 1-based position
TupleIndexOffByOne(x) ==
    LET n == Len(PALETTE)
    IN  IF x.type # "int" THEN [exc |-> "TypeError", val |-> <<>>]
        ELSE IF x.idx >= 1 /\ x.idx <= n THEN [exc |-> "", val |-> PALETTE[x.idx]]
        ELSE IF x.idx < 0 /\ x.idx >= 0 - n THEN [exc |-> "", val |-> PALETTE[n + x.idx + 1]]
        ELSE [exc |-> "IndexError", val |-> <<>>]

\* self.palette[x]: Python's tuple indexing, negative indices count from the end
TupleIndex(x) ==
    LET n == Len(PALETTE)
    IN  IF x.type # "int" THEN [exc |-> "TypeError", val |-> <<>>]
        ELSE IF x.idx >= 0 /\ x.idx < n THEN [exc |-> "", val |-> PALETTE[x.idx + 1]]
        ELSE IF x.idx < 0 /\ x.idx >= 0 - n THEN [exc |-> "", val |-> PALETTE[n + x.idx + 1]]
        ELSE [exc |-> "IndexError", val |-> <<>>]

\* the loop over colors with the lookup of the branch taken; it stops at the
\* first lookup that raises
RECURSIVE Collect(_, _, _, _)
Collect(items, byname, dtype, acc) ==
    IF items = <<>> THEN [exc |-> "", vals |-> acc]
    ELSE LET r == IF byname THEN DictLookup(Head(items)) ELSE TupleIndex(Head(items))
         IN  IF r.exc # "" THEN [exc |-> r.exc, vals |-> acc]
             ELSE Collect(Tail(items), byname, dtype, Append(acc, Convert(r.val, dtype)))

\* the body after the dtype check
LookupColors(colors, dtype) ==
    IF colors.items = <<>> THEN Raise("IndexError")
    ELSE LET first == colors.items[1]
             got == IF first.type = "str" THEN Collect(colors.items, TRUE, dtype, <<>>)
                    ELSE IF first.type = "int" THEN Collect(colors.items, FALSE, dtype, <<>>)
                    ELSE [exc |-> "", vals |-> <<>>]
         IN  IF got.exc # "" THEN Raise(got.exc)
             ELSE IF ~colors.islist
                  THEN (IF got.vals = <<>> THEN Raise("IndexError")
                        ELSE Return(FALSE, <<got.vals[1]>>))
                  ELSE Return(TRUE, got.vals)

get(colors, dtype) ==
    IF ~DtypeLegal(dtype) THEN Raise("ValueError") ELSE LookupColors(colors, dtype)

(***************************************************************************)
(* The palette as a state machine                                          *)
(***************************************************************************)
Identifiers ==
    {StrId(n) : n \in NameSet \cup {"groen"}}
        \cup {IntId(i) : i \in (0 - Len(PALETTE) - 1)..Len(PALETTE)}
        \cup {FloatId}

RECURSIVE SeqsUpTo(_, _)
SeqsUpTo(S, n) ==
    IF n = 0 THEN {<<>>}
    ELSE LET shorter == SeqsUpTo(S, n - 1)
         IN  shorter \cup {Append(q, x) : q \in shorter, x \in S}

ColorArgs ==
    {[islist |-> FALSE, items |-> <<x>>] : x \in Identifiers}
        \cup {[islist |-> TRUE, items |-> q] : q \in SeqsUpTo(Identifiers, MaxLen)}

Dtypes == {"float", "int", "hex"}

GeomIdle ==
    /\ p0 = <<0, 0>>
    /\ p1 = <<0, 0>>
    /\ p2 = <<1, 0>>
    /\ GeomFresh

InitPalette ==
    /\ PaletteIdle
    /\ GeomIdle
    /\ IOIdle

CallGet ==
    /\ getCall = <<>>
    /\ \E colors \in ColorArgs, dtype \in Dtypes :
        /\ getCall' = <<[colors |-> colors, dtype |-> dtype]>>
        /\ getRet' = <<get(colors, dtype)>>
    /\ UNCHANGED <<geomVars, ioVars>>

\* the caller takes the outcome; the palette itself holds no state
GetDone ==
    /\ getCall # <<>>
    /\ getCall' = <<>>
    /\ getRet' = <<>>
    /\ UNCHANGED <<geomVars, ioVars>>

NextPalette == CallGet \/ GetDone

SpecPalette == InitPalette /\ [][NextPalette]_vars

(***************************************************************************)
(* io.export_to_pgf and design.config_matplotlib_for_latex                 *)
(*                                                                         *)
(* A path is [abs, comps, ext]: absolute or relative to the working        *)
(* directory, its components, and the suffix appended to the last one.     *)
(***************************************************************************)
RelPath(comps) == [abs |-> FALSE, comps |-> comps, ext |-> ""]

AbsPath(comps) == [abs |-> TRUE, comps |-> comps, ext |-> ""]

\* os.path.join(a, b)
PathJoin(a, b) ==
    IF b.abs THEN b
    ELSE [abs |-> a.abs, comps |-> a.comps \o b.comps, ext |-> b.ext]

\* path + suffix
WithSuffix(path, suffix) == [path EXCEPT !.ext = path.ext \o suffix]

Parent(path) ==
    [abs |-> path.abs, comps |-> SubSeq(path.comps, 1, Len(path.comps) - 1), ext |-> ""]

\* os.path.exists(path): the working directory and the root always exist
PathExists(path, ds, fs) == path.comps = <<>> \/ path \in ds \/ path \in fs

\* fig.savefig(path) opens path for writing: its directory must exist
Savefig(path, ds, fs) ==
    IF PathExists(Parent(path), ds, {})
    THEN [exc |-> "", files |-> fs \cup {path}]
    ELSE [exc |-> "FileNotFoundError", files |-> fs]

\* the path the figure is saved to
ExportPath(filename, dirname) ==
    IF dirname # <<>>
    THEN WithSuffix(PathJoin(filename, dirname[1]), ".pgf")
    ELSE WithSuffix(filename, ".pgf")

\* os.makedirs() is called without the directory: it always raises
Makedirs == "TypeError"

\* the outcome of export_to_pgf: the exception ("" for none) and the file system
export_to_pgf(filename, dirname, save, be, ds, fs) ==
    IF be # "pgf" THEN [exc |-> "AssertionError", dirs |-> ds, files |-> fs]
    ELSE IF ~save THEN [exc |-> "", dirs |-> ds, files |-> fs]
    ELSE IF dirname # <<>> /\ ~PathExists(dirname[1], ds, fs)
         THEN [exc |-> Makedirs, dirs |-> ds, files |-> fs]
         ELSE LET w == Savefig(ExportPath(filename, dirname), ds, fs)
              IN  [exc |-> w.exc, dirs |-> ds, files |-> w.files]

\* the backend config_matplotlib_for_latex selects
ConfiguredBackend(save, output_type) ==
    LET t == IF Head(output_type) # "." THEN <<".">> \o output_type ELSE output_type
    IN  IF save /\ t = <<".", "pgf">> THEN "pgf" ELSE "Qt5Agg"

(***************************************************************************)
(* The export as a state machine                                           *)
(***************************************************************************)
FileNames == {RelPath(<<"fig1">>), RelPath(<<"plots">>)}

DirNames == {RelPath(<<"plots">>), RelPath(<<"out">>), AbsPath(<<"out">>)}

DirArgs == {<<>>} \cup {<<d>> : d \in DirNames}

\* output types, as the characters before and after the dot
OutputTypes == {<<".", "pgf">>, <<"pgf">>, <<".", "png">>}

InitIO ==
    /\ backend = "agg"
    /\ dirs \in SUBSET (DirNames \cup {RelPath(<<"fig1">>)})
    /\ files = {}
    /\ exportCall = <<>>
    /\ exportRet = <<>>
    /\ PaletteIdle
    /\ GeomIdle

Configure ==
    /\ \E save \in BOOLEAN, output_type \in OutputTypes :
        backend' = ConfiguredBackend(save, output_type)
    /\ UNCHANGED <<dirs, files, exportCall, exportRet>>
    /\ UNCHANGED <<geomVars, paletteVars>>

CallExport ==
    /\ \E filename \in FileNames, dirname \in DirArgs, save \in BOOLEAN :
        LET r == export_to_pgf(filename, dirname, save, backend, dirs, files)
        IN  /\ exportCall' = <<[filename |-> filename, dirname |-> dirname, save |-> save,
                                backend |-> backend, dirsBefore |-> dirs,
                                filesBefore |-> files]>>
            /\ exportRet' = <<r.exc>>
            /\ dirs' = r.dirs
            /\ files' = r.files
    /\ UNCHANGED backend
    /\ UNCHANGED <<geomVars, paletteVars>>

NextIO == Configure \/ CallExport

SpecIO == InitIO /\ [][NextIO]_vars

(***************************************************************************)
(* Properties of the measurement                                           *)
(***************************************************************************)
Measured == retDist # <<>>

PX(q) == IntRat(q[1])

PY(q) == IntRat(q[2])

\* a*x + b*y + c for rational x, y
LineForm(x, y) ==
    RatAdd(RatAdd(RatMul(IntRat(LineA(p1, p2)), x), RatMul(IntRat(LineB(p1, p2)), y)),
           IntRat(p1[1] * p2[2] - p1[2] * p2[1]))

\* (p0 - pc) . (p2 - p1)
DotWithLine(pc) ==
    RatAdd(RatMul(RatSub(PX(p0), pc[1]), IntRat(p2[1] - p1[1])),
           RatMul(RatSub(PY(p0), pc[2]), IntRat(p2[2] - p1[2])))

\* |p0 - pc|^2
SqDistTo(pc) ==
    RatAdd(RatMul(RatSub(PX(p0), pc[1]), RatSub(PX(p0), pc[1])),
           RatMul(RatSub(PY(p0), pc[2]), RatSub(PY(p0), pc[2])))

\* C1: the point distance_to_line returns is the foot of the perpendicular:
\* it lies on the line through p1 and p2, p0 - pc is perpendicular to
\* p2 - p1, and the returned distance squared is |p0 - pc|^2.
C1_FootOfPerpendicular ==
    Measured =>
        LET r == retDist[1]
        IN  /\ r.pc[1].den > 0 /\ r.pc[2].den > 0 /\ r.d.rad > 0
            /\ RatEq(LineForm(r.pc[1], r.pc[2]), IntRat(0))
            /\ RatEq(DotWithLine(r.pc), IntRat(0))
            /\ RatEq(DistSq(r.d), SqDistTo(r.pc))

\* the general case p1=(0,0), p2=(1,1), p0=(0,2): foot (1,1), d^2 = 2
C1_Witness ==
    /\ Measured
    /\ p0 = <<0, 2>> /\ p1 = <<0, 0>> /\ p2 = <<1, 1>>
    /\ RatEq(retDist[1].pc[1], IntRat(1))
    /\ RatEq(retDist[1].pc[2], IntRat(1))
    /\ RatEq(DistSq(retDist[1].d), IntRat(2))

OnLine == p0[1] * (p1[2] - p2[2]) + p0[2] * (p2[1] - p1[1])
              + (p1[1] * p2[2] - p1[2] * p2[1]) = 0

\* C2: the returned distance is >= 0, and it is 0 exactly when p0 lies on
\* the line through p1 and p2, on the general and on both override paths.
C2_DistanceZeroIffOnLine ==
    Measured =>
        LET d == retDist[1].d
        IN  /\ d.num >= 0
            /\ d.rad > 0
            /\ (d.num = 0) <=> OnLine

\* p0 on a slanted line (general path), distance 0
C2_Witness ==
    /\ Measured
    /\ OnLine
    /\ p1[1] # p2[1] /\ p1[2] # p2[2]
    /\ p0 # p1 /\ p0 # p2
    /\ retDist[1].d.num = 0

\* C3: swapping the two line points leaves distance and foot unchanged.
C3_SwapSymmetry ==
    (Measured /\ retSwap # <<>>) => retSwap[1] = retDist[1]

\* both orders measured on a slanted line with p0 off the line
C3_Witness ==
    /\ Measured /\ retSwap # <<>>
    /\ p1[1] # p2[1] /\ p1[2] # p2[2]
    /\ ~OnLine
    /\ retSwap[1] = retDist[1]

\* C4: on a horizontal line (p1.y = p2.y) the result is exactly
\* |p1.y - p0.y| and (p0.x, p1.y); on a vertical line (p1.x = p2.x) it is
\* exactly |p1.x - p0.x| and (p1.x, p0.y).
C4_AxisAlignedPolicy ==
    Measured =>
        /\ (p1[2] = p2[2]) =>
               retDist[1] = [d |-> [num |-> Abs(p1[2] - p0[2]), rad |-> 1],
                             pc |-> <<IntRat(p0[1]), IntRat(p1[2])>>]
        /\ (p1[1] = p2[1]) =>
               retDist[1] = [d |-> [num |-> Abs(p1[1] - p0[1]), rad |-> 1],
                             pc |-> <<IntRat(p1[1]), IntRat(p0[2])>>]

\* a horizontal line with p0 above it and off the line's first point
C4_Witness ==
    /\ Measured
    /\ p1 = <<0, 0>> /\ p2 = <<2, 0>> /\ p0 = <<1, 2>>
    /\ retDist[1].d = [num |-> 2, rad |-> 1]
    /\ retDist[1].pc = <<IntRat(1), IntRat(0)>>

\* C5: draw_distance_to_line returns the pair distance_to_line returns for
\* the same points, whatever offset, width, drawPoints, linewidth and color.
C5_DrawReturnsMeasurement ==
    (Measured /\ retDraw # <<>>) => retDraw[1] = retDist[1]

\* measured and drawn with a non-zero offset, with the points marked
C5_Witness ==
    /\ Measured /\ retDraw # <<>>
    /\ drawArgs[1].offset # 0 /\ drawArgs[1].drawPoints /\ drawArgs[1].color = "red"
    /\ ~OnLine
    /\ Len(ax) = 5
    /\ retDraw[1] = retDist[1]

(***************************************************************************)
(* Properties of the annotation                                            *)
(***************************************************************************)
RECURSIVE CountKind(_, _)
CountKind(s, kind) ==
    IF s = <<>> THEN 0
    ELSE (IF Head(s).kind = kind THEN 1 ELSE 0) + CountKind(Tail(s), kind)

\* a segment from (base1 + k1*dir) to (base2 + k2*dir)
IsSegment(pr, base1, k1, base2, k2) ==
    /\ pr.kind = "line"
    /\ pr.xs[1].base = base1[1] /\ pr.xs[1].k = k1 /\ pr.xs[1].trig = "cos"
    /\ pr.ys[1].base = base1[2] /\ pr.ys[1].k = k1 /\ pr.ys[1].trig = "sin"
    /\ pr.xs[2].base = base2[1] /\ pr.xs[2].k = k2 /\ pr.xs[2].trig = "cos"
    /\ pr.ys[2].base = base2[2] /\ pr.ys[2].k = k2 /\ pr.ys[2].trig = "sin"

\* what one call must have added at the end of the surface
CallAdded(before, after, q0, q1, q2, foot, args) ==
    LET n == Len(before)
        s == IF args.offset > 0 THEN 1 ELSE IF args.offset < 0 THEN 0 - 1 ELSE 1
        q == <<IntRat(q0[1]), IntRat(q0[2])>>
        lo == args.offset - s * args.width
        hi == args.offset + s * args.width
    IN  /\ Len(after) = n + 4 + (IF args.drawPoints THEN 1 ELSE 0)
        /\ SubSeq(after, 1, n) = before
        /\ IsSegment(after[n + 1], foot, args.offset, q, args.offset)
        /\ IsSegment(after[n + 2], foot, lo, foot, hi)
        /\ IsSegment(after[n + 3], q, lo, q, hi)
        /\ IsSegment(after[n + 4], q, 0, q, args.offset)
        /\ after[n + 4].linestyle = "--"
        /\ \A i \in 1..3 : after[n + i].linestyle = "-"
        /\ Abs(after[n + 2].xs[2].k - after[n + 2].xs[1].k) = 2 * Abs(args.width)
        /\ Abs(after[n + 3].xs[2].k - after[n + 3].xs[1].k) = 2 * Abs(args.width)
        /\ (args.width # 0) => /\ after[n + 2].xs[2].k # after[n + 2].xs[1].k
                               /\ after[n + 3].xs[2].k # after[n + 3].xs[1].k
        /\ args.drawPoints =>
               /\ after[n + 5].kind = "scatter"
               /\ after[n + 5].xs = <<IntRat(q0[1]), IntRat(q1[1]), IntRat(q2[1]), foot[1]>>
               /\ after[n + 5].ys = <<IntRat(q0[2]), IntRat(q1[2]), IntRat(q2[2]), foot[2]>>

\* C10: each call appends exactly four segments in the order main bar, tick
\* at the offset foot, tick at the offset query point, dashed leader from
\* p0, and one scatter of p0, p1, p2, foot iff drawPoints; what was on the
\* surface stays; after n calls the surface holds 4n segments; the tick sign
\* is sign(offset), +1 for offset 0, so a tick spans 2*width, non-zero
\* whenever width is.
C10_FourSegmentsPerCall ==
    /\ [](CountKind(ax, "line") = 4 * ncalls)
    /\ [][ncalls' = ncalls + 1 =>
            CallAdded(ax, ax', p0', p1', p2', retDraw'[1].pc, drawArgs'[1])]_vars

\* two calls made, the second with offset 0, a non-zero width and the
\* points marked, on a surface the first call left without a scatter
C10_Witness ==
    /\ ncalls = 2
    /\ CountKind(ax, "line") = 8
    /\ CountKind(ax, "scatter") = 1
    /\ Len(ax) = 9
    /\ ax[9].kind = "scatter"
    /\ drawArgs[1].offset = 0 /\ drawArgs[1].width = 1 /\ drawArgs[1].drawPoints
    /\ ax[6].xs[1].k = 0 - 1 /\ ax[6].xs[2].k = 1

(***************************************************************************)
(* Properties of the palette                                               *)
(***************************************************************************)
GetCalled == getCall # <<>>

\* the triplet at palette position i (0-based), in the form dtype asks for
TripletAt(i, dtype) ==
    LET den == IF dtype = "float" THEN 255 ELSE 1
    IN  << [num |-> PALETTE[i + 1][1], den |-> den],
           [num |-> PALETTE[i + 1][2], den |-> den],
           [num |-> PALETTE[i + 1][3], den |-> den] >>

\* C6: for every palette index i in 0..11, get(COLORNAMES[i], dtype) and
\* get(i, dtype) return the same triplet: PALETTE[i] for 'int', each channel
\* of it divided by 255 for 'float'.
C6_NameIndexConsistency ==
    GetCalled =>
        \A i \in 0..11 :
            LET c == getCall[1]
            IN  ( /\ ~c.colors.islist
                  /\ c.dtype \in {"int", "float"}
                  /\ \/ c.colors.items[1] = [type |-> "str", name |-> COLORNAMES[i + 1], idx |-> 0]
                     \/ c.colors.items[1] = [type |-> "int", name |-> "", idx |-> i] )
                => /\ getRet[1].kind = "return"
                   /\ ~getRet[1].islist
                   /\ getRet[1].value = <<TripletAt(i, c.dtype)>>

\* get(3, 'float') returned blauw's channels over 255
C6_Witness ==
    /\ GetCalled
    /\ getCall[1].colors = [islist |-> FALSE, items |-> <<[type |-> "int", name |-> "", idx |-> 3]>>]
    /\ getCall[1].dtype = "float"
    /\ getRet[1].kind = "return"
    /\ getRet[1].value = << <<[num |-> 0, den |-> 255], [num |-> 118, den |-> 255],
                              [num |-> 194, den |-> 255]>> >>

\* C7: with a dtype other than 'float' or 'int', get raises the validation
\* error and returns nothing, whatever the colors argument.
C7_InvalidDtypeRaises ==
    (GetCalled /\ getCall[1].dtype \notin {"float", "int"}) =>
        /\ getRet[1].kind = "raise"
        /\ getRet[1].exc = "ValueError"
        /\ getRet[1].value = <<>>

\* get('blauw', 'hex'): a colour that exists, refused for the dtype
C7_Witness ==
    /\ GetCalled
    /\ getCall[1].dtype = "hex"
    /\ getCall[1].colors = [islist |-> FALSE, items |-> <<[type |-> "str", name |-> "blauw", idx |-> 0]>>]
    /\ getRet[1].kind = "raise"
    /\ getRet[1].exc = "ValueError"

\* a name among the 12 colour names, or an index among the positions 0..11
ValidIdentifier(x) ==
    \/ x.type = "str" /\ \E i \in 1..12 : COLORNAMES[i] = x.name
    \/ x.type = "int" /\ x.idx \in 0..11

\* C8: with a legal dtype, get never returns (a triplet, a list or an empty
\* result) when the colors argument holds an invalid identifier, alone or
\* as an element of a list: it fails.
C8_InvalidIdentifierFails ==
    ( /\ GetCalled
      /\ getCall[1].dtype \in {"float", "int"}
      /\ \E k \in 1..Len(getCall[1].colors.items) :
            ~ValidIdentifier(getCall[1].colors.items[k]) )
    => getRet[1].kind = "raise"

(***************************************************************************)
(* Properties of the export                                                *)
(***************************************************************************)
\* C9: export_to_pgf(fig, filename, dirname, save=True) under the pgf
\* backend completes without error, with dirname existing afterwards and
\* the file filename + '.pgf' inside dirname; a dirname that existed before
\* leaves the directories as they were.
C9_ExportCreatesDirAndWrites ==
    ( /\ exportCall # <<>>
      /\ exportCall[1].backend = "pgf"
      /\ exportCall[1].save
      /\ exportCall[1].dirname # <<>> )
    => LET c == exportCall[1]
           d == c.dirname[1]
           target == [abs |-> d.abs, comps |-> d.comps \o c.filename.comps, ext |-> ".pgf"]
       IN  /\ exportRet[1] = ""
           /\ d \in dirs
           /\ target \in files
           /\ (d \in c.dirsBefore) => dirs = c.dirsBefore

====
